---- MODULE Spec2Model ----
\* Device-bound access-authorization state machine of src/server.js:
\* the login handler, the student-view handler and the admin handlers,
\* each split at its awaits, running against the shared PostgreSQL tables.
EXTENDS Integers, Sequences, FiniteSets, TLC

\* ---------------------------------------------------------------- bounds
\* largest value of the logical CURRENT_TIMESTAMP
MaxClock == 2
\* number of admin commands issued in a behaviour
MaxAdmin == 2
\* rows the grades, absences and notifications tables can hold
MaxGrades == 1
MaxAbsences == 1
MaxNotifs == 1

\* ------------------------------------------------------- input universes
\* rows of the students table (immutable here: the roster import is not modelled)
Students == {1, 2}
\* a student id that is in no students row
MissingId == 99
StudentIds == Students \cup {MissingId}
\* codes typed at login: the code of student 1 and a code no student has
Codes == {"AB-0001", "ZZ-9999"}
Devices == {"d1", "d2"}
\* JavaScript undefined (a body field that was not supplied); SQL NULL, which
\* is read back as JavaScript null and is also what a JSON null in a body is
Undef == "undefined"
NULL == "NULL"
DeviceInputs == Devices \cup {Undef}
\* device_id fields of a body, a JSON null included
BodyDevices == DeviceInputs \cup {NULL}
\* devices of the first-login race
RaceDevices == {"d1", "d2", "d3"}
Reasons == {"late payment", Undef}
LoginProcs == {1, 2, 3}
ViewProcs == {"v1"}
ViewLoginProcs == {1}
DecisionLoginProcs == {1, 2}
Subjects == {"math"}
Dates == {"2024-01-01"}
Titles == {"note"}
ALL == "ALL"
\* student_id values posted to the data-recording routes, and notification targets
DataKeys == {"AB-0001", "CD-0002"}
NotifTargets == {"CD-0002", ALL}

\* students.code, UNIQUE
CodeOf(s) == IF s = 1 THEN "AB-0001" ELSE "CD-0002"

\* SELECT id, name FROM students WHERE code = $1  (rows[0], 0 when no row)
StudentByCode(code) ==
    IF \E s \in Students : CodeOf(s) = code
    THEN CHOOSE s \in Students : CodeOf(s) = code
    ELSE 0

\* node-postgres parameter conversion: undefined is sent as NULL
PgParam(v) == IF v = Undef THEN NULL ELSE v

\* JavaScript === between a TEXT column value read back (a string or null) and
\* a body field (a string, null or undefined): null === null is true, and
\* null === undefined is false
StrictEq(stored, input) == stored = input

VARIABLES access_requests, grades, absences, notifications, clock,
          login, view, adminRes, nAdmin, adminCalls, listing

tables == <<grades, absences, notifications>>
vars == <<access_requests, grades, absences, notifications, clock,
          login, view, adminRes, nAdmin, adminCalls, listing>>

\* ---------------------------------------------------------- request store
\* rows of access_requests for student id s
RowsOf(ar, s) == {r \in ar : r.student_id = s}

\* rows[0] of a SELECT ... WHERE student_id = $1
RowOf(ar, s) == CHOOSE r \in ar : r.student_id = s

ResetRowsOf(ar, s) == {r \in ar : r.student_id # s}

\* mutant: the INSERT relies on the column defaults and binds no device
NewRow_NoDevice(s, dev, now) ==
    [student_id |-> s, device_id |-> NULL, status |-> "PENDING",
     message |-> NULL, request_date |-> now]

NewRow(s, dev, now) ==
    [student_id |-> s, device_id |-> PgParam(dev), status |-> "PENDING",
     message |-> NULL, request_date |-> now]

\* mutant: the table has no primary key
InsertAllowed_NoKey(ar, s) == TRUE

\* the PRIMARY KEY on student_id: an INSERT of a second row raises
InsertAllowed(ar, s) == RowsOf(ar, s) = {}

\* ------------------------------------------------------------ login
MsgInvalidCode == "Code matricule incorrect"
MsgDeviceMismatch == "Ce code est deja lie a un autre telephone."
MsgLoginError == "Erreur serveur lors de la connexion."

NoRes == [http |-> 0, success |-> FALSE, message |-> Undef, id |-> 0,
          secret_code |-> Undef, status |-> Undef, student_message |-> Undef]

LoginFail(http, msg) == [NoRes EXCEPT !.http = http, !.message = msg]

LoginOk(s, code, status, msg) ==
    [http |-> 200, success |-> TRUE, message |-> Undef, id |-> s,
     secret_code |-> code, status |-> status, student_message |-> msg]

\* mutant: the status is not read back from the row
ExistingResponse_StalePending(request, s, code, dev) ==
    IF StrictEq(request.device_id, dev)
    THEN LoginOk(s, code, "PENDING", Undef)
    ELSE LoginFail(200, MsgDeviceMismatch)

\* mutant: the device of the stored binding is not compared
ExistingResponse_NoDeviceCheck(request, s, code, dev) ==
    IF request.status = "REJECTED"
    THEN LoginOk(s, code, "REJECTED", request.message)
    ELSE LoginOk(s, code, request.status, Undef)

\* the else branch of the handler: a request row was read
ExistingResponse(request, s, code, dev) ==
    IF StrictEq(request.device_id, dev)
    THEN IF request.status = "REJECTED"
         THEN LoginOk(s, code, "REJECTED", request.message)
         ELSE LoginOk(s, code, request.status, Undef)
    ELSE LoginFail(200, MsgDeviceMismatch)

LoginIdle == [pc |-> "idle", code |-> Undef, device_id |-> Undef, res |-> NoRes]

\* a POST /api/login arrives
LoginStart(p, code, dev) ==
    /\ login[p].pc = "idle"
    /\ \A q \in LoginProcs : q < p => login[q].pc # "idle"
    /\ login' = [login EXCEPT ![p] =
                   [pc |-> "selStudent", code |-> code, device_id |-> dev, res |-> NoRes]]
    /\ UNCHANGED <<access_requests, tables, clock, view, adminRes, nAdmin, adminCalls, listing>>

\* mutant: the handler does not return on an unknown code
LoginSelectStudent_NoCheck(p) ==
    /\ login[p].pc = "selStudent"
    /\ login' = [login EXCEPT ![p] = [@ EXCEPT !.pc = "selRequest"]]
    /\ UNCHANGED <<access_requests, tables, clock, view, adminRes, nAdmin, adminCalls, listing>>

\* SELECT from students resolves; unknown code answers at once
LoginSelectStudent(p) ==
    /\ login[p].pc = "selStudent"
    /\ login' = [login EXCEPT ![p] =
                   IF StudentByCode(login[p].code) = 0
                   THEN [@ EXCEPT !.pc = "done", !.res = LoginFail(200, MsgInvalidCode)]
                   ELSE [@ EXCEPT !.pc = "selRequest"]]
    /\ UNCHANGED <<access_requests, tables, clock, view, adminRes, nAdmin, adminCalls, listing>>

\* mutant: a login from another device takes the binding over
LoginSelectRequest_Rebind(p) ==
    /\ login[p].pc = "selRequest"
    /\ LET s == StudentByCode(login[p].code) IN
       IF RowsOf(access_requests, s) = {}
       THEN /\ login' = [login EXCEPT ![p] = [@ EXCEPT !.pc = "insert"]]
            /\ UNCHANGED access_requests
       ELSE /\ access_requests' =
                 {IF r.student_id = s
                  THEN [r EXCEPT !.device_id = PgParam(login[p].device_id)] ELSE r
                    : r \in access_requests}
            /\ login' = [login EXCEPT ![p] =
                           [@ EXCEPT !.pc = "done",
                                     !.res = LoginOk(s, login[p].code,
                                                     RowOf(access_requests, s).status, Undef)]]
    /\ UNCHANGED <<tables, clock, view, adminRes, nAdmin, adminCalls, listing>>

\* SELECT from access_requests resolves; an existing row answers at once
LoginSelectRequest(p) ==
    /\ login[p].pc = "selRequest"
    /\ LET s == StudentByCode(login[p].code) IN
       login' = [login EXCEPT ![p] =
                   IF RowsOf(access_requests, s) = {}
                   THEN [@ EXCEPT !.pc = "insert"]
                   ELSE [@ EXCEPT !.pc = "done",
                                  !.res = ExistingResponse(RowOf(access_requests, s), s,
                                                           login[p].code, login[p].device_id)]]
    /\ UNCHANGED <<access_requests, tables, clock, view, adminRes, nAdmin, adminCalls, listing>>

\* mutant: INSERT ... ON CONFLICT (student_id) DO UPDATE SET device_id
LoginInsert_Upsert(p) ==
    /\ login[p].pc = "insert"
    /\ LET s == StudentByCode(login[p].code) IN
       \E now \in {clock, clock + 1} :
          /\ now <= MaxClock
          /\ clock' = now
          /\ access_requests' = ResetRowsOf(access_requests, s)
                                   \cup {NewRow(s, login[p].device_id, now)}
          /\ login' = [login EXCEPT ![p] =
                         [@ EXCEPT !.pc = "done",
                                   !.res = LoginOk(s, login[p].code, "PENDING", Undef)]]
    /\ UNCHANGED <<tables, view, adminRes, nAdmin, adminCalls, listing>>

\* the INSERT resolves, or raises on the primary key and the catch answers 500
LoginInsert(p) ==
    /\ login[p].pc = "insert"
    /\ LET s == StudentByCode(login[p].code) IN
       IF InsertAllowed(access_requests, s)
       THEN /\ \E now \in {clock, clock + 1} :
                 /\ now <= MaxClock
                 /\ clock' = now
                 /\ access_requests' = access_requests \cup {NewRow(s, login[p].device_id, now)}
            /\ login' = [login EXCEPT ![p] =
                           [@ EXCEPT !.pc = "done",
                                     !.res = LoginOk(s, login[p].code, "PENDING", Undef)]]
       ELSE /\ UNCHANGED <<access_requests, clock>>
            /\ login' = [login EXCEPT ![p] =
                           [@ EXCEPT !.pc = "done", !.res = LoginFail(500, MsgLoginError)]]
    /\ UNCHANGED <<tables, view, adminRes, nAdmin, adminCalls, listing>>

\* ------------------------------------------------------------ admin
\* the last admin request and its answer; again tells that the request before
\* it was the same command with the same body
NoAdminRes == [op |-> "none", student_id |-> 0, reason |-> Undef,
               success |-> FALSE, again |-> FALSE]

AdminAnswer(op, s, reason, ok) ==
    [op |-> op, student_id |-> s, reason |-> reason, success |-> ok,
     again |-> (adminRes.op = op /\ adminRes.student_id = s /\ adminRes.reason = reason)]

\* mutant: approve of a student without a request creates an APPROVED row
ApproveRows_CreatesRow(ar, s) ==
    IF RowsOf(ar, s) = {}
    THEN ar \cup {[student_id |-> s, device_id |-> NULL, status |-> "APPROVED",
                   message |-> NULL, request_date |-> 0]}
    ELSE {IF r.student_id = s THEN [r EXCEPT !.status = "APPROVED", !.message = NULL] ELSE r
            : r \in ar}

\* mutant: approve sets the status and leaves the message in place
ApproveRows_KeepsMessage(ar, s) ==
    {IF r.student_id = s THEN [r EXCEPT !.status = "APPROVED"] ELSE r : r \in ar}

\* UPDATE ... SET status = 'APPROVED', message = NULL WHERE student_id = $1
ApproveRows(ar, s) ==
    {IF r.student_id = s THEN [r EXCEPT !.status = "APPROVED", !.message = NULL] ELSE r
       : r \in ar}

\* mutant: reject stores the reason and leaves the status as it is
RejectRows_MessageOnly(ar, s, reason) ==
    {IF r.student_id = s THEN [r EXCEPT !.message = PgParam(reason)] ELSE r : r \in ar}

\* mutant: only a request that is still PENDING can be rejected
RejectRows_PendingOnly(ar, s, reason) ==
    {IF r.student_id = s /\ r.status = "PENDING"
     THEN [r EXCEPT !.status = "REJECTED", !.message = PgParam(reason)] ELSE r
       : r \in ar}

\* UPDATE ... SET status = 'REJECTED', message = $1 WHERE student_id = $2
RejectRows(ar, s, reason) ==
    {IF r.student_id = s THEN [r EXCEPT !.status = "REJECTED", !.message = PgParam(reason)] ELSE r
       : r \in ar}

\* mutant: reset puts the request back to PENDING and keeps the row
ResetRows_KeepsBinding(ar, s) ==
    {IF r.student_id = s THEN [r EXCEPT !.status = "PENDING", !.message = NULL] ELSE r
       : r \in ar}

\* DELETE FROM access_requests WHERE student_id = $1
ResetRows(ar, s) == ResetRowsOf(ar, s)

Approve(s) ==
    /\ access_requests' = ApproveRows(access_requests, s)
    /\ nAdmin < MaxAdmin
    /\ nAdmin' = nAdmin + 1
    /\ adminRes' = AdminAnswer("approve", s, Undef, TRUE)
    /\ UNCHANGED <<tables, clock, login, view>>

Reject(s, reason) ==
    /\ access_requests' = RejectRows(access_requests, s, reason)
    /\ nAdmin < MaxAdmin
    /\ nAdmin' = nAdmin + 1
    /\ adminRes' = AdminAnswer("reject", s, reason, TRUE)
    /\ UNCHANGED <<tables, clock, login, view>>

\* mutant: a DELETE that affects no row is answered as a failure
Reset_FailsOnMissing(s) ==
    /\ access_requests' = ResetRows(access_requests, s)
    /\ nAdmin < MaxAdmin
    /\ nAdmin' = nAdmin + 1
    /\ adminRes' = AdminAnswer("reset", s, Undef, RowsOf(access_requests, s) # {})
    /\ UNCHANGED <<tables, clock, login, view>>

Reset(s) ==
    /\ access_requests' = ResetRows(access_requests, s)
    /\ nAdmin < MaxAdmin
    /\ nAdmin' = nAdmin + 1
    /\ adminRes' = AdminAnswer("reset", s, Undef, TRUE)
    /\ UNCHANGED <<tables, clock, login, view>>

\* admin requests that have arrived while others are in flight
AdminProcs == {1, 2}
AdminOps == {"approve", "reject", "reset"}
AdminIdle == [pc |-> "idle", op |-> "none", student_id |-> 0, reason |-> Undef]

\* a POST /api/admin/approve, /reject or /reset arrives
AdminArrive(a, op, s, reason) ==
    /\ adminCalls[a].pc = "idle"
    /\ adminCalls' = [adminCalls EXCEPT ![a] =
                        [pc |-> "issued", op |-> op, student_id |-> s,
                         reason |-> IF op = "reject" THEN reason ELSE Undef]]
    /\ UNCHANGED <<access_requests, tables, clock, login, view, adminRes, nAdmin, listing>>

\* mutant: approve is written as two statements, status first and message second
AdminRun_TwoStatements(a) ==
    LET c == adminCalls[a] IN
    IF c.op = "approve"
    THEN \/ /\ c.pc = "issued"
            /\ access_requests' =
                 {IF r.student_id = c.student_id THEN [r EXCEPT !.status = "APPROVED"] ELSE r
                    : r \in access_requests}
            /\ adminCalls' = [adminCalls EXCEPT ![a].pc = "half"]
            /\ UNCHANGED <<tables, clock, login, view, adminRes, nAdmin, listing>>
         \/ /\ c.pc = "half"
            /\ Approve(c.student_id)
            /\ adminCalls' = [adminCalls EXCEPT ![a].pc = "done"]
            /\ UNCHANGED listing
    ELSE /\ c.pc = "issued"
         /\ \/ c.op = "reject" /\ Reject(c.student_id, c.reason)
            \/ c.op = "reset" /\ Reset(c.student_id)
         /\ adminCalls' = [adminCalls EXCEPT ![a].pc = "done"]
         /\ UNCHANGED listing

\* the query of an arrived admin request runs and the request is answered
AdminRun(a) ==
    LET c == adminCalls[a] IN
    /\ c.pc = "issued"
    /\ \/ c.op = "approve" /\ Approve(c.student_id)
       \/ c.op = "reject" /\ Reject(c.student_id, c.reason)
       \/ c.op = "reset" /\ Reset(c.student_id)
    /\ adminCalls' = [adminCalls EXCEPT ![a].pc = "done"]
    /\ UNCHANGED listing

\* ------------------------------------------------------------ admin listing
\* one row of SELECT ar.student_id, s.name, s.code, ar.status, ar.message,
\* ar.request_date FROM access_requests ar JOIN students s ON ar.student_id = s.id
ListedRow(r) ==
    [student_id |-> r.student_id, code |-> CodeOf(r.student_id), status |-> r.status,
     message |-> r.message, request_date |-> r.request_date]

JoinedRows(ar) == {ListedRow(r) : r \in {x \in ar : x.student_id \in Students}}

\* mutant: ORDER BY ar.request_date (ascending)
ListedBefore_Ascending(e1, e2) == e1.request_date <= e2.request_date

\* ORDER BY ar.request_date DESC: e1 may come before e2
ListedBefore(e1, e2) == e1.request_date >= e2.request_date

\* the results the query may return: rows with equal request_date in any order
Listings(ar) ==
    LET rows == JoinedRows(ar)
        n == Cardinality(rows)
    IN  {l \in [1..n -> rows] :
           /\ \A i \in 1..n : \A j \in 1..n : l[i] = l[j] => i = j
           /\ \A i \in 1..n : \A j \in 1..n : i < j => ListedBefore(l[i], l[j])}

\* GET /api/admin/requests
ListRequests ==
    /\ \E l \in Listings(access_requests) : listing' = l
    /\ UNCHANGED <<access_requests, tables, clock, login, view, adminRes, nAdmin, adminCalls>>

\* ------------------------------------------------------------ student view
JsTrue == "true"
JsFalse == "false"
MsgNotFound == "Eleve introuvable"
MsgViewError == "Erreur serveur lors de la recuperation des donnees."

Reverse(q) == [i \in 1..Len(q) |-> q[Len(q) + 1 - i]]

\* SELECT type, title, ... WHERE target_id = $1 OR target_id = 'ALL' ORDER BY id DESC
NotifsFor(tbl, code) ==
    LET hit(n) == n.target_id = code \/ n.target_id = ALL
        sel == SelectSeq(tbl, hit)
    IN  Reverse([i \in 1..Len(sel) |-> [title |-> sel[i].title]])

\* SELECT date, reason FROM absences WHERE student_id = $1
AbsencesFor(tbl, code) ==
    LET hit(a) == a.student_id = code
        sel == SelectSeq(tbl, hit)
    IN  [i \in 1..Len(sel) |-> [date |-> sel[i].date]]

\* SELECT subject, score FROM grades WHERE student_id = $1
GradesFor(tbl, code) ==
    LET hit(g) == g.student_id = code
        sel == SelectSeq(tbl, hit)
    IN  [i \in 1..Len(sel) |-> [subject |-> sel[i].subject]]

\* access && access.status === 'APPROVED'  (undefined when there is no row)
IsApproved(ar, s) ==
    IF RowsOf(ar, s) = {} THEN Undef
    ELSE IF RowOf(ar, s).status = "APPROVED" THEN JsTrue ELSE JsFalse

\* access && access.status === 'REJECTED'  (undefined when there is no row)
IsRejected(ar, s) ==
    IF RowsOf(ar, s) = {} THEN Undef
    ELSE IF RowOf(ar, s).status = "REJECTED" THEN JsTrue ELSE JsFalse

\* (access && access.message) ? access.message : ''
RejectionMsg(ar, s) ==
    IF RowsOf(ar, s) = {} THEN ""
    ELSE IF RowOf(ar, s).message \in {NULL, ""} THEN "" ELSE RowOf(ar, s).message

\* a field that is undefined is left out of the JSON body
NoViewRes == [http |-> 0, error |-> Undef, locked |-> Undef, rejected |-> Undef,
              reject_reason |-> Undef, notifications |-> <<>>, absences |-> <<>>,
              grades |-> <<>>]

ViewUnlocked(notifs, abs, grs) ==
    [NoViewRes EXCEPT !.http = 200, !.locked = JsFalse, !.notifications = notifs,
                      !.absences = abs, !.grades = grs]

ViewLocked(isRejected, rejectionMsg, notifs, abs) ==
    [NoViewRes EXCEPT !.http = 200, !.locked = JsTrue, !.rejected = isRejected,
                      !.reject_reason = rejectionMsg, !.notifications = notifs,
                      !.absences = abs]

ViewIdle == [pc |-> "idle", id |-> 0, isApproved |-> Undef, isRejected |-> Undef,
             rejectionMsg |-> "", notifs |-> <<>>, absences |-> <<>>, res |-> NoViewRes]

\* a GET /api/my-grades/:id arrives
ViewStart(v, id) ==
    /\ view[v].pc \in {"idle", "done"}
    /\ view' = [view EXCEPT ![v] = [ViewIdle EXCEPT !.pc = "selAccess", !.id = id]]
    /\ UNCHANGED <<access_requests, tables, clock, login, adminRes, nAdmin, adminCalls, listing>>

\* SELECT status, message FROM access_requests resolves
ViewSelectAccess(v) ==
    /\ view[v].pc = "selAccess"
    /\ view' = [view EXCEPT ![v] =
                  [@ EXCEPT !.pc = "selStudent",
                            !.isApproved = IsApproved(access_requests, view[v].id),
                            !.isRejected = IsRejected(access_requests, view[v].id),
                            !.rejectionMsg = RejectionMsg(access_requests, view[v].id)]]
    /\ UNCHANGED <<access_requests, tables, clock, login, adminRes, nAdmin, adminCalls, listing>>

\* SELECT code FROM students resolves; unknown id answers at once
ViewSelectStudent(v) ==
    /\ view[v].pc = "selStudent"
    /\ view' = [view EXCEPT ![v] =
                  IF view[v].id \in Students
                  THEN [@ EXCEPT !.pc = "selNotifs"]
                  ELSE [@ EXCEPT !.pc = "done",
                                 !.res = [NoViewRes EXCEPT !.http = 200, !.error = MsgNotFound]]]
    /\ UNCHANGED <<access_requests, tables, clock, login, adminRes, nAdmin, adminCalls, listing>>

\* SELECT from notifications resolves
ViewSelectNotifs(v) ==
    /\ view[v].pc = "selNotifs"
    /\ view' = [view EXCEPT ![v] =
                  [@ EXCEPT !.pc = "selAbsences",
                            !.notifs = NotifsFor(notifications, CodeOf(view[v].id))]]
    /\ UNCHANGED <<access_requests, tables, clock, login, adminRes, nAdmin, adminCalls, listing>>

\* SELECT from absences resolves; a locked view answers at once
ViewSelectAbsences(v) ==
    /\ view[v].pc = "selAbsences"
    /\ LET abs == AbsencesFor(absences, CodeOf(view[v].id)) IN
       view' = [view EXCEPT ![v] =
                  IF view[v].isApproved = JsTrue
                  THEN [@ EXCEPT !.pc = "selGrades", !.absences = abs]
                  ELSE [@ EXCEPT !.pc = "done", !.absences = abs,
                                 !.res = ViewLocked(view[v].isRejected, view[v].rejectionMsg,
                                                    view[v].notifs, abs)]]
    /\ UNCHANGED <<access_requests, tables, clock, login, adminRes, nAdmin, adminCalls, listing>>

\* SELECT from grades resolves and the unlocked view is answered
ViewSelectGrades(v) ==
    /\ view[v].pc = "selGrades"
    /\ view' = [view EXCEPT ![v] =
                  [@ EXCEPT !.pc = "done",
                            !.res = ViewUnlocked(view[v].notifs, view[v].absences,
                                                 GradesFor(grades, CodeOf(view[v].id)))]]
    /\ UNCHANGED <<access_requests, tables, clock, login, adminRes, nAdmin, adminCalls, listing>>

\* ------------------------------------------------------------ data recording
\* POST /api/grades
AddGrade(sid, subject) ==
    /\ Len(grades) < MaxGrades
    /\ grades' = Append(grades, [student_id |-> sid, subject |-> subject])
    /\ UNCHANGED <<access_requests, absences, notifications, clock, login, view, adminRes, nAdmin, adminCalls, listing>>

\* POST /api/absences
AddAbsence(sid, date) ==
    /\ Len(absences) < MaxAbsences
    /\ absences' = Append(absences, [student_id |-> sid, date |-> date])
    /\ UNCHANGED <<access_requests, grades, notifications, clock, login, view, adminRes, nAdmin, adminCalls, listing>>

\* POST /api/notifications
AddNotification(target, title) ==
    /\ Len(notifications) < MaxNotifs
    /\ notifications' = Append(notifications, [target_id |-> target, title |-> title])
    /\ UNCHANGED <<access_requests, grades, absences, clock, login, view, adminRes, nAdmin, adminCalls, listing>>

\* ------------------------------------------------------------ specification

Init ==
    /\ access_requests \in {{}, {NewRow(2, "d2", 0)}}
    /\ grades = <<>>
    /\ absences = <<>>
    /\ notifications = <<>>
    /\ clock = 0
    /\ login = [p \in LoginProcs |-> LoginIdle]
    /\ view = [v \in ViewProcs |-> ViewIdle]
    /\ adminRes = NoAdminRes
    /\ nAdmin = 0
    /\ adminCalls = [a \in AdminProcs |-> AdminIdle]
    /\ listing = <<>>

LoginStep(P, D) ==
    \/ \E p \in P, code \in Codes, dev \in D : LoginStart(p, code, dev)
    \/ \E p \in P : LoginSelectStudent(p)
    \/ \E p \in P : LoginSelectRequest(p)
    \/ \E p \in P : LoginInsert(p)

\* an admin request handled from arrival to answer without another step between
AdminStep ==
    /\ \/ \E s \in Students : Approve(s)
       \/ \E s \in Students, reason \in Reasons : Reject(s, reason)
       \/ \E s \in Students : Reset(s)
    /\ UNCHANGED <<adminCalls, listing>>

Next ==
    \/ LoginStep(LoginProcs, DeviceInputs)
    \/ AdminStep

Spec == Init /\ [][Next]_vars

\* logins only: no admin command is interleaved
NextRace == LoginStep(LoginProcs, RaceDevices)

SpecRace == Init /\ [][NextRace]_vars

ViewStep ==
    \/ \E v \in ViewProcs, id \in StudentIds : ViewStart(v, id)
    \/ \E v \in ViewProcs : ViewSelectAccess(v)
    \/ \E v \in ViewProcs : ViewSelectStudent(v)
    \/ \E v \in ViewProcs : ViewSelectNotifs(v)
    \/ \E v \in ViewProcs : ViewSelectAbsences(v)
    \/ \E v \in ViewProcs : ViewSelectGrades(v)

DataStep ==
    \/ \E sid \in DataKeys, subject \in Subjects : AddGrade(sid, subject)
    \/ \E sid \in DataKeys, date \in Dates : AddAbsence(sid, date)
    \/ \E target \in NotifTargets, title \in Titles : AddNotification(target, title)

\* the student view running against admin commands, data recording and one login
NextView ==
    \/ LoginStep(ViewLoginProcs, DeviceInputs)
    \/ AdminStep
    \/ ViewStep
    \/ DataStep

SpecView == Init /\ [][NextView]_vars

\* the admin listing taken between logins and admin commands
NextList ==
    \/ LoginStep(DecisionLoginProcs, BodyDevices)
    \/ AdminStep
    \/ ListRequests

SpecList == Init /\ [][NextList]_vars

\* the store the concurrent admin requests start from: student 2 is bound
BoundStore == {NewRow(2, "d2", 0)}

InitBound ==
    /\ access_requests = BoundStore
    /\ grades = <<>>
    /\ absences = <<>>
    /\ notifications = <<>>
    /\ clock = 0
    /\ login = [p \in LoginProcs |-> LoginIdle]
    /\ view = [v \in ViewProcs |-> ViewIdle]
    /\ adminRes = NoAdminRes
    /\ nAdmin = 0
    /\ adminCalls = [a \in AdminProcs |-> AdminIdle]
    /\ listing = <<>>

\* admin requests in flight together
NextAdminRace ==
    \/ \E a \in AdminProcs, op \in AdminOps, s \in Students, reason \in Reasons :
          AdminArrive(a, op, s, reason)
    \/ \E a \in AdminProcs : AdminRun(a)

SpecAdminRace == InitBound /\ [][NextAdminRace]_vars

\* two logins, the admin commands and the student view, with a grade on record

InitGraded ==
    /\ access_requests \in {{}, {NewRow(2, "d2", 0)}}
    /\ grades = <<[student_id |-> CodeOf(1), subject |-> "math"]>>
    /\ absences = <<>>
    /\ notifications = <<>>
    /\ clock = 0
    /\ login = [p \in LoginProcs |-> LoginIdle]
    /\ view = [v \in ViewProcs |-> ViewIdle]
    /\ adminRes = NoAdminRes
    /\ nAdmin = 0
    /\ adminCalls = [a \in AdminProcs |-> AdminIdle]
    /\ listing = <<>>

NextDecision ==
    \/ LoginStep(DecisionLoginProcs, DeviceInputs)
    \/ AdminStep
    \/ ViewStep

SpecDecision == InitGraded /\ [][NextDecision]_vars


\* ------------------------------------------------------------ properties
ValidCode(code) == \E s \in Students : CodeOf(s) = code

\* the login request in slot p takes a step
LoginMoves(p) == login'[p] # login[p]

\* C1: a login whose read finds the student's request bound to another device
\* answers DEVICE_MISMATCH without success and writes nothing, whatever the
\* status of the request is.
C1_DeviceMismatch ==
    [][\A p \in LoginProcs : \A r \in access_requests :
          ( /\ login[p].pc = "selRequest"
            /\ LoginMoves(p)
            /\ ValidCode(login[p].code)
            /\ CodeOf(r.student_id) = login[p].code
            /\ r.device_id \in Devices
            /\ login[p].device_id \in Devices
            /\ r.device_id # login[p].device_id )
          => ( /\ login'[p].pc = "done"
               /\ login'[p].res.success = FALSE
               /\ login'[p].res.message = MsgDeviceMismatch
               /\ access_requests' = access_requests )]_vars

C1_Witness ==
    \E p \in LoginProcs : \E r \in access_requests :
        /\ login[p].pc = "done"
        /\ CodeOf(r.student_id) = login[p].code
        /\ login[p].device_id = "d2"
        /\ r.device_id = "d1"
        /\ r.status = "REJECTED"
        /\ login[p].res.message = MsgDeviceMismatch

\* C2: no student ever has two access_requests rows.
C2_OneRequestPerStudent ==
    \A r1 \in access_requests : \A r2 \in access_requests :
        r1.student_id = r2.student_id => r1 = r2

\* two logins read "no row" and both reached the INSERT; one of them lost it
C2_Witness ==
    \E p \in LoginProcs : \E q \in LoginProcs :
        /\ login[p].pc = "done" /\ login[q].pc = "done"
        /\ login[p].code = login[q].code
        /\ login[p].device_id = "d1" /\ login[q].device_id = "d2"
        /\ login[p].res.success
        /\ login[q].res.http = 500
        /\ Cardinality(RowsOf(access_requests, 1)) = 1

\* C3: when logins for a student without a request race from pairwise distinct
\* devices and no admin command runs, one row is created, no two of the logins
\* both get success, and the stored device is the one of the login that got it.
C3_OneWinner ==
    /\ \A s \in Students : Cardinality(RowsOf(access_requests, s)) <= 1
    /\ \A p \in LoginProcs :
         (login[p].pc = "done" /\ ValidCode(login[p].code))
         => Cardinality(RowsOf(access_requests, StudentByCode(login[p].code))) = 1
    /\ \A p \in LoginProcs :
         (login[p].pc = "done" /\ login[p].res.success)
         => \E r \in access_requests :
               /\ CodeOf(r.student_id) = login[p].code
               /\ r.device_id = login[p].device_id
    /\ \A p \in LoginProcs : \A q \in LoginProcs :
         ( /\ p # q
           /\ login[p].pc = "done" /\ login[q].pc = "done"
           /\ login[p].code = login[q].code
           /\ login[p].device_id # login[q].device_id )
         => ~(login[p].res.success /\ login[q].res.success)

\* three logins from three devices all read "no row"; one INSERT won
C3_Witness ==
    /\ \A p \in LoginProcs :
         /\ login[p].pc = "done"
         /\ login[p].code = CodeOf(1)
         /\ (login[p].res.success \/ login[p].res.http = 500)
    /\ {login[p].device_id : p \in LoginProcs} = RaceDevices
    /\ Cardinality({p \in LoginProcs : login[p].res.success}) = 1
    /\ Cardinality({p \in LoginProcs : login[p].res.http = 500}) = 2

\* C4: a login that loses the INSERT of a first-login race is answered like a
\* login that arrived after the winning INSERT: DEVICE_MISMATCH when its device
\* differs from the stored one, success with the stored status when it is the same.
C4_LoserReevaluated ==
    [][\A p \in LoginProcs : \A r \in access_requests :
          ( /\ login[p].pc = "insert"
            /\ LoginMoves(p)
            /\ CodeOf(r.student_id) = login[p].code )
          => ( /\ login'[p].pc = "done"
               /\ IF r.device_id = login[p].device_id
                  THEN login'[p].res.success /\ login'[p].res.status = r.status
                  ELSE ~login'[p].res.success /\ login'[p].res.message = MsgDeviceMismatch )]_vars

\* C5: a login from device D whose INSERT finds no row for the student creates
\* the row (D, PENDING, no message) and answers success with status PENDING;
\* the read that found no row answers nothing and writes nothing.
C5_FirstLoginCreatesPending ==
    [][\A p \in LoginProcs : \A s \in Students :
          ( /\ LoginMoves(p)
            /\ CodeOf(s) = login[p].code
            /\ login[p].device_id \in Devices
            /\ RowsOf(access_requests, s) = {} )
          => ( /\ login[p].pc = "selRequest"
                  => (login'[p].pc = "insert" /\ access_requests' = access_requests)
               /\ login[p].pc = "insert"
                  => ( /\ \E r \in access_requests' :
                            /\ access_requests' = access_requests \cup {r}
                            /\ r.student_id = s
                            /\ r.device_id = login[p].device_id
                            /\ r.status = "PENDING"
                            /\ r.message = NULL
                       /\ login'[p].pc = "done"
                       /\ login'[p].res.http = 200
                       /\ login'[p].res.success
                       /\ login'[p].res.id = s
                       /\ login'[p].res.status = "PENDING"
                       /\ login'[p].res.student_message = Undef ) )]_vars

\* a sole login created the row and no admin command has run
C5_Witness ==
    /\ nAdmin = 0
    /\ login[1].pc = "done" /\ login[2].pc = "idle"
    /\ login[1].device_id = "d2"
    /\ login[1].res.success /\ login[1].res.status = "PENDING"
    /\ \E r \in access_requests :
         /\ r.student_id = 1 /\ r.device_id = "d2"
         /\ r.status = "PENDING" /\ r.message = NULL

\* C6: the device_id of a row never changes in any step, and a row disappears
\* only in a step of reset for its student.
C6_DeviceNeverRebound ==
    [][/\ \A r \in access_requests : \A r2 \in access_requests' :
            r.student_id = r2.student_id => r2.device_id = r.device_id
       /\ \A s \in Students :
            (RowsOf(access_requests, s) # {} /\ RowsOf(access_requests', s) = {})
            => ( /\ nAdmin' = nAdmin + 1
                 /\ adminRes'.op = "reset"
                 /\ adminRes'.student_id = s )]_vars

\* the binding to d1 survived a login from d2 and an admin decision
C6_Witness ==
    /\ \E r \in access_requests :
         r.student_id = 1 /\ r.device_id = "d1" /\ r.status = "APPROVED"
    /\ \E p \in LoginProcs :
         /\ login[p].pc = "done" /\ login[p].code = CodeOf(1)
         /\ login[p].device_id = "d2"
         /\ login[p].res.message = MsgDeviceMismatch
    /\ adminRes.op = "approve"

\* C7: a login from the bound device D answers success with the status the read
\* found, with the stored message when that status is REJECTED, and writes nothing.
C7_SameDeviceReads ==
    [][\A p \in LoginProcs : \A r \in access_requests :
          ( /\ login[p].pc = "selRequest"
            /\ LoginMoves(p)
            /\ CodeOf(r.student_id) = login[p].code
            /\ r.device_id \in Devices
            /\ r.device_id = login[p].device_id )
          => ( /\ login'[p].pc = "done"
               /\ login'[p].res.http = 200
               /\ login'[p].res.success
               /\ login'[p].res.id = r.student_id
               /\ login'[p].res.status = r.status
               /\ r.status = "REJECTED" => login'[p].res.student_message = r.message
               /\ access_requests' = access_requests )]_vars

C7_Witness ==
    \E p \in LoginProcs : \E q \in LoginProcs :
        /\ p # q
        /\ login[p].pc = "done" /\ login[q].pc = "done"
        /\ login[p].code = CodeOf(1) /\ login[q].code = CodeOf(1)
        /\ login[p].device_id = "d1" /\ login[q].device_id = "d1"
        /\ login[p].res.success /\ login[p].res.status = "APPROVED"
        /\ login[q].res.success /\ login[q].res.status = "REJECTED"
        /\ login[q].res.student_message = "late payment"

\* C8: a login whose code matches no student answers INVALID_CODE without
\* success, and no step of it creates or changes an access_requests row.
C8_InvalidCode ==
    [][\A p \in LoginProcs :
          ( /\ login[p].pc # "idle"
            /\ LoginMoves(p)
            /\ ~ValidCode(login[p].code) )
          => ( /\ login[p].pc = "selStudent"
               /\ login'[p].pc = "done"
               /\ login'[p].res.success = FALSE
               /\ login'[p].res.message = MsgInvalidCode
               /\ access_requests' = access_requests )]_vars

C8_Witness ==
    \E p \in LoginProcs :
        /\ login[p].pc = "done"
        /\ login[p].code = "ZZ-9999"
        /\ login[p].res.message = MsgInvalidCode
        /\ access_requests = {}

\* the view request in slot v answers, and the stored status is still the one
\* its first query read; absentRejected is the rejected flag expected when the
\* student has no request
ViewGate(absentRejected) ==
    \A v \in ViewProcs :
       ( /\ view[v].pc \in {"selAbsences", "selGrades"}
         /\ view'[v].pc = "done"
         /\ view[v].id \in Students
         /\ IsApproved(access_requests, view[v].id) = view[v].isApproved
         /\ IsRejected(access_requests, view[v].id) = view[v].isRejected )
       => LET s == view[v].id
              approved == \E r \in RowsOf(access_requests, s) : r.status = "APPROVED"
              res == view'[v].res
          IN  /\ res.http = 200
              /\ res.grades = IF approved THEN GradesFor(grades, CodeOf(s)) ELSE <<>>
              /\ res.notifications = view[v].notifs
              /\ res.absences = IF view[v].pc = "selAbsences"
                                THEN AbsencesFor(absences, CodeOf(s))
                                ELSE view[v].absences
              /\ (res.locked = JsFalse) <=> approved
              /\ (res.locked = JsTrue) <=> ~approved
              /\ RowsOf(access_requests, s) = {}
                 => ( /\ res.locked = JsTrue
                      /\ res.rejected = absentRejected
                      /\ res.grades = <<>> )

\* C9: the view of an existing student carries the student's grades exactly when
\* the request is APPROVED, always carries absences and notifications, has
\* locked true exactly when the status is not APPROVED, and for a student
\* without a request has locked=true, rejected=false and no grades.
C9_ViewGate == [][ViewGate(JsFalse)]_vars

\* the same gate with the rejected flag the handler sends for a student without
\* a request: isRejected is undefined there and the field is left out
C9_ViewGateAsCoded == [][ViewGate(Undef)]_vars

\* an admin command answered for student s as the last one
LastAdmin(op, s) == adminRes.op = op /\ adminRes.student_id = s

\* C10: a reset leaves the student without a request whatever the status was;
\* while reset is the last admin command for the student, a login that finds no
\* row creates a fresh (device, PENDING, no message) row and succeeds, any row
\* of the student is such a fresh row, and a login from a device other than the
\* newly bound one gets DEVICE_MISMATCH.
C10_ResetReleasesBinding ==
    /\ [][\A s \in Students :
            (nAdmin' = nAdmin + 1 /\ adminRes'.op = "reset" /\ adminRes'.student_id = s)
            => RowsOf(access_requests', s) = {}]_vars
    /\ [](\A s \in Students : \A r \in RowsOf(access_requests, s) :
            LastAdmin("reset", s)
            => ( /\ r.status = "PENDING"
                 /\ r.message = NULL
                 /\ \E p \in LoginProcs :
                       /\ login[p].pc = "done"
                       /\ login[p].code = CodeOf(s)
                       /\ PgParam(login[p].device_id) = r.device_id
                       /\ login[p].res.success
                       /\ login[p].res.status = "PENDING" ))
    /\ [][\A p \in LoginProcs : \A s \in Students :
            ( /\ LastAdmin("reset", s)
              /\ LoginMoves(p)
              /\ login[p].code = CodeOf(s)
              /\ login[p].device_id \in Devices )
            => ( /\ (login[p].pc = "insert" /\ RowsOf(access_requests, s) = {})
                    => ( /\ RowsOf(access_requests', s) =
                              {[student_id |-> s, device_id |-> login[p].device_id,
                                status |-> "PENDING", message |-> NULL,
                                request_date |-> clock']}
                         /\ login'[p].res.success
                         /\ login'[p].res.status = "PENDING" )
                 /\ \A r \in RowsOf(access_requests, s) :
                      ( /\ login[p].pc = "selRequest"
                        /\ r.device_id \in Devices
                        /\ r.device_id # login[p].device_id )
                      => ( /\ ~login'[p].res.success
                           /\ login'[p].res.message = MsgDeviceMismatch
                           /\ access_requests' = access_requests ) )]_vars

\* d1 was bound and approved, reset released it, d2 bound anew, d1 is refused
C10_Witness ==
    /\ LastAdmin("reset", 1)
    /\ nAdmin = 2
    /\ \E r \in access_requests :
         r.student_id = 1 /\ r.device_id = "d2" /\ r.status = "PENDING"
    /\ \E p \in LoginProcs : \E q \in LoginProcs : \E o \in LoginProcs :
         /\ login[p].pc = "done" /\ login[q].pc = "done" /\ login[o].pc = "done"
         /\ login[p].code = CodeOf(1) /\ login[q].code = CodeOf(1)
         /\ login[o].code = CodeOf(1)
         /\ login[o].device_id = "d1" /\ login[o].res.success
         /\ login[p].device_id = "d2" /\ login[p].res.success
         /\ login[q].device_id = "d1" /\ login[q].res.message = MsgDeviceMismatch

\* the admin command op is answered for student s in this step
AdminAnswers(op, s) ==
    nAdmin' = nAdmin + 1 /\ adminRes'.op = op /\ adminRes'.student_id = s

\* C11: reject with a reason turns the student's row into (REJECTED, reason)
\* from any status; until the next admin command the row stays so, a login from
\* the bound device answers success with REJECTED and the reason, and a view
\* that reads the row answers locked=true, rejected=true, the reason, no grades.
C11_RejectOverwrites ==
    /\ [][\A s \in Students : \A reason \in Reasons \ {Undef} : \A r \in RowsOf(access_requests, s) :
            Reject(s, reason)
            => RowsOf(access_requests', s) =
                 {[r EXCEPT !.status = "REJECTED", !.message = reason]}]_vars
    /\ [][\A s \in Students : \A r \in RowsOf(access_requests, s) :
            (LastAdmin("reject", s) /\ nAdmin' = nAdmin /\ r.status = "REJECTED")
            => r \in access_requests']_vars
    /\ [][\A p \in LoginProcs : \A r \in access_requests :
            ( /\ LastAdmin("reject", r.student_id)
              /\ r.status = "REJECTED" /\ r.message # NULL
              /\ login[p].pc = "selRequest" /\ LoginMoves(p)
              /\ login[p].code = CodeOf(r.student_id)
              /\ r.device_id \in Devices
              /\ login[p].device_id = r.device_id )
            => ( /\ login'[p].res.success
                 /\ login'[p].res.status = "REJECTED"
                 /\ login'[p].res.student_message = r.message )]_vars
    /\ [][\A v \in ViewProcs : \A r \in access_requests :
            ( /\ LastAdmin("reject", r.student_id)
              /\ r.status = "REJECTED" /\ r.message # NULL
              /\ view[v].pc = "selAccess" /\ view'[v] # view[v]
              /\ view[v].id = r.student_id )
            => ( /\ view'[v].isApproved # JsTrue
                 /\ view'[v].isRejected = JsTrue
                 /\ view'[v].rejectionMsg = r.message )]_vars
    /\ [](\A v \in ViewProcs :
            (view[v].pc = "done" /\ view[v].id \in Students /\ view[v].isRejected = JsTrue)
            => ( /\ view[v].res.locked = JsTrue
                 /\ view[v].res.rejected = JsTrue
                 /\ view[v].res.reject_reason = view[v].rejectionMsg
                 /\ view[v].res.grades = <<>> ))

\* an approved request was rejected; the bound device and the view see it
C11_Witness ==
    /\ LastAdmin("reject", 1) /\ nAdmin = 2
    /\ \E r \in access_requests :
         /\ r.student_id = 1 /\ r.device_id = "d1"
         /\ r.status = "REJECTED" /\ r.message = "late payment"
    /\ \E p \in LoginProcs :
         /\ login[p].pc = "done" /\ login[p].device_id = "d1"
         /\ login[p].res.success /\ login[p].res.status = "REJECTED"
         /\ login[p].res.student_message = "late payment"
    /\ \E v \in ViewProcs :
         /\ view[v].pc = "done" /\ view[v].id = 1
         /\ view[v].res.locked = JsTrue /\ view[v].res.rejected = JsTrue
         /\ view[v].res.reject_reason = "late payment"
         /\ view[v].res.grades = <<>>
    /\ GradesFor(grades, CodeOf(1)) # <<>>

\* C12: a row whose status is APPROVED has no message.
C12_ApprovedHasNoMessage ==
    \A r \in access_requests : r.status = "APPROVED" => r.message = NULL

\* a request that was rejected with a reason is now approved
C12_Witness ==
    /\ LastAdmin("approve", 1) /\ nAdmin = 2
    /\ \E r \in access_requests :
         r.student_id = 1 /\ r.device_id = "d1" /\ r.status = "APPROVED"
    /\ \E p \in LoginProcs :
         /\ login[p].pc = "done" /\ login[p].device_id = "d1"
         /\ login[p].res.status = "REJECTED"
         /\ login[p].res.student_message = "late payment"

\* C13: every approve, reject and reset answers success and leaves a store on
\* which the same command changes nothing; issued again right after itself on
\* that store, it leaves access_requests as it is.
C13_AdminIdempotent ==
    [][\A s \in Students :
          /\ AdminAnswers("approve", s)
             => ( /\ adminRes'.success
                  /\ ApproveRows(access_requests', s) = access_requests'
                  /\ (adminRes'.again /\ ApproveRows(access_requests, s) = access_requests)
                     => access_requests' = access_requests )
          /\ AdminAnswers("reject", s)
             => ( /\ adminRes'.success
                  /\ RejectRows(access_requests', s, adminRes'.reason) = access_requests'
                  /\ ( /\ adminRes'.again
                       /\ RejectRows(access_requests, s, adminRes'.reason) = access_requests )
                     => access_requests' = access_requests )
          /\ AdminAnswers("reset", s)
             => ( /\ adminRes'.success
                  /\ ResetRows(access_requests', s) = access_requests'
                  /\ (adminRes'.again /\ ResetRows(access_requests, s) = access_requests)
                     => access_requests' = access_requests )]_vars

\* reset was issued twice in a row for a student that had logged in
C13_Witness ==
    /\ LastAdmin("reset", 1) /\ adminRes.again /\ adminRes.success
    /\ RowsOf(access_requests, 1) = {}
    /\ \A p \in LoginProcs :
         /\ login[p].pc = "done" /\ login[p].code = CodeOf(1)
         /\ login[p].res.http = 200
         /\ login[p].device_id = "d1"
         /\ login[p].res.success

\* C14: approve or reject of a student without a row answers success and leaves
\* access_requests as it is; a login INSERT that then finds no row creates a
\* PENDING row without message.
C14_DecisionOnMissingRow ==
    [][\A s \in Students :
          /\ ( /\ AdminAnswers("approve", s) \/ AdminAnswers("reject", s)
               /\ RowsOf(access_requests, s) = {} )
             => (adminRes'.success /\ access_requests' = access_requests)
          /\ \A p \in LoginProcs :
               ( /\ LastAdmin("approve", s) \/ LastAdmin("reject", s)
                 /\ RowsOf(access_requests, s) = {}
                 /\ login[p].pc = "insert" /\ LoginMoves(p)
                 /\ login[p].code = CodeOf(s) )
               => ( /\ \A r \in RowsOf(access_requests', s) :
                         r.status = "PENDING" /\ r.message = NULL
                    /\ RowsOf(access_requests', s) # {}
                    /\ login'[p].res.success
                    /\ login'[p].res.status = "PENDING" )]_vars

\* approve came before the student's first login: the row is PENDING
C14_Witness ==
    /\ LastAdmin("approve", 1) /\ adminRes.success
    /\ \E r \in access_requests :
         r.student_id = 1 /\ r.device_id = "d1" /\ r.status = "PENDING"
    /\ \E p \in LoginProcs :
         /\ login[p].pc = "done" /\ login[p].device_id = "d1"
         /\ login[p].res.success /\ login[p].res.status = "PENDING"

\* the effect of one admin request on the store
ApplyCall(ar, c) ==
    IF c.op = "approve" THEN ApproveRows(ar, c.student_id)
    ELSE IF c.op = "reject" THEN RejectRows(ar, c.student_id, c.reason)
    ELSE ResetRows(ar, c.student_id)

\* the serial orders of the answered admin requests
AnsweredCalls == {a \in AdminProcs : adminCalls[a].pc = "done"}
SerialOrders ==
    {o \in [1..Cardinality(AnsweredCalls) -> AnsweredCalls] :
        \A i \in DOMAIN o : \A j \in DOMAIN o : o[i] = o[j] => i = j}

RECURSIVE ApplyOrder(_, _, _)
ApplyOrder(ar, o, i) ==
    IF i > Len(o) THEN ar
    ELSE ApplyOrder(ApplyCall(ar, adminCalls[o[i]]), o, i + 1)

\* C15: with admin requests in flight together, the store in every state is
\* the one a serial execution of the answered requests produces, so a row
\* never mixes two commands (APPROVED with a message, REJECTED with another
\* request's reason).
C15_AdminSerializable ==
    \E o \in SerialOrders : access_requests = ApplyOrder(BoundStore, o, 1)

\* approve and reject of student 2 were in flight together; reject ran last
C15_Witness ==
    /\ adminCalls[1].pc = "done" /\ adminCalls[2].pc = "done"
    /\ adminCalls[1].op = "approve" /\ adminCalls[1].student_id = 2
    /\ adminCalls[2].op = "reject" /\ adminCalls[2].student_id = 2
    /\ adminCalls[2].reason = "late payment"
    /\ LastAdmin("reject", 2)
    /\ \E r \in access_requests :
         r.student_id = 2 /\ r.status = "REJECTED" /\ r.message = "late payment"

\* C16: every access_requests row has a device_id that is not NULL; a login
\* that supplies no device_id creates no row.
C16_DeviceIdPresent ==
    /\ \A r \in access_requests : r.device_id # NULL
    /\ \A p \in LoginProcs :
         (login[p].pc = "done" /\ login[p].device_id = Undef) => ~login[p].res.success

\* C17: the grades query of a view, whose result is answered with locked=false,
\* runs only while the student's row is APPROVED.
C17_GateAtomic ==
    [][\A v \in ViewProcs :
          ( /\ view[v].pc = "selGrades"
            /\ view'[v].pc = "done"
            /\ view'[v].res.locked = JsFalse )
          => \E r \in RowsOf(access_requests, view[v].id) : r.status = "APPROVED"]_vars

\* the student ids of a listing, in its order
ListedIds(l) == [i \in DOMAIN l |-> l[i].student_id]

\* C18: the admin listing has exactly one entry per access_requests row, from
\* the most recent request_date to the oldest; a row keeps its request_date in
\* every step that keeps the row, so approve and reject leave the order of the
\* listing as it was.
C18_ListingOrder ==
    /\ [][ListRequests
          => ( /\ Len(listing') = Cardinality(access_requests)
               /\ \A r \in access_requests : \E i \in DOMAIN listing' :
                     /\ listing'[i].student_id = r.student_id
                     /\ listing'[i].code = CodeOf(r.student_id)
                     /\ listing'[i].status = r.status
                     /\ listing'[i].message = r.message
                     /\ listing'[i].request_date = r.request_date
               /\ \A i \in DOMAIN listing' : \A j \in DOMAIN listing' :
                     i < j => listing'[i].request_date >= listing'[j].request_date )]_vars
    /\ [][\A r \in access_requests : \A r2 \in access_requests' :
            r.student_id = r2.student_id => r2.request_date = r.request_date]_vars
    /\ [][\A s \in Students :
            (AdminAnswers("approve", s) \/ AdminAnswers("reject", s))
            => {ListedIds(l) : l \in Listings(access_requests')}
                 = {ListedIds(l) : l \in Listings(access_requests)}]_vars

\* student 1 logged in after student 2 and was then approved: it is listed first
C18_Witness ==
    /\ Len(listing) = 2
    /\ listing \in Listings(access_requests)
    /\ listing[1].student_id = 1 /\ listing[2].student_id = 2
    /\ listing[1].request_date > listing[2].request_date
    /\ listing[1].status = "APPROVED"
    /\ LastAdmin("approve", 1)

\* C19: a row appears only in the INSERT step of a login for that student,
\* with status PENDING, never in an admin step; and no step turns a row that is
\* APPROVED or REJECTED into a PENDING one.
C19_PendingOnlyByLogin ==
    [][\A s \in Students :
          /\ (RowsOf(access_requests, s) = {} /\ RowsOf(access_requests', s) # {})
             => ( /\ \A r \in RowsOf(access_requests', s) : r.status = "PENDING"
                  /\ nAdmin' = nAdmin /\ adminRes' = adminRes
                  /\ \E p \in LoginProcs :
                        /\ login[p].pc = "insert" /\ login'[p].pc = "done"
                        /\ login[p].code = CodeOf(s)
                        /\ login'[p].res.success )
          /\ \A r \in RowsOf(access_requests, s) : \A r2 \in RowsOf(access_requests', s) :
                r.status # "PENDING" => r2.status # "PENDING"]_vars

\* a rejected request was reset and the student logged in anew
C19_Witness ==
    /\ LastAdmin("reset", 1) /\ nAdmin = 2
    /\ \E r \in access_requests :
         r.student_id = 1 /\ r.device_id = "d1" /\ r.status = "PENDING"
    /\ \E p \in LoginProcs : \E q \in LoginProcs :
         /\ login[p].pc = "done" /\ login[q].pc = "done"
         /\ login[p].device_id = "d1" /\ login[p].res.status = "REJECTED"
         /\ p < q
         /\ login[q].device_id = "d1" /\ login[q].res.success
         /\ login[q].res.status = "PENDING"

\* C20: every row belongs to a student of the students table, has status
\* PENDING, APPROVED or REJECTED, and has a message only when it is REJECTED.
C20_RowsWellFormed ==
    \A r \in access_requests :
        /\ r.student_id \in Students
        /\ r.status \in {"PENDING", "APPROVED", "REJECTED"}
        /\ r.message # NULL => r.status = "REJECTED"

\* one student rejected with a reason, the other approved
C20_Witness ==
    /\ \E r \in access_requests :
         r.student_id = 1 /\ r.status = "REJECTED" /\ r.message = "late payment"
    /\ \E r \in access_requests :
         r.student_id = 2 /\ r.status = "APPROVED" /\ r.message = NULL
    /\ nAdmin = 2
====
